---- MODULE Spec2Model ----
(***************************************************************************)
(* Model of curiam's label parsing and span reconstruction:                *)
(*   src/src/curiam/inception/tsv_processing.py                            *)
(*       process_compound_label, process_sentence, get_annotations         *)
(*   src/src/curiam/document.py                                            *)
(*       Sentence.get_annotations                                          *)
(*                                                                         *)
(* Python strings are sequences of one-character strings, so that split,   *)
(* index, slicing, int() and f-string formatting are computed character by *)
(* character, as the code computes them.                                   *)
(***************************************************************************)
EXTENDS Integers, Sequences, FiniteSets

VARIABLES
    \* process_compound_label
    label, sublabels, categories, annotation_indexes, ppc,
    \* tsv_processing.get_annotations: the references the token labels are
    \* written from (sentence-local ids for SpecTsv, document-global ids of
    \* the raw labels for SpecNorm), the sentence (one row of cells per
    \* token), the loop index, the two accumulators, the position in the
    \* function
    stream, sentence, i, annotations, indexed_annotations, apc,
    \* process_sentence: the raw rows, the number of rows consumed, the
    \* offset, the rows written, the position in the function
    tsv_rows, rows_done, index_offset, simplified_rows, npc,
    \* Sentence.get_annotations: self.tokens, the argument, the number of
    \* tokens consumed, the two accumulators, the position in the method
    tokens, annotator, tokens_done, doc_annotations, doc_indexed, dpc

parse_vars == <<label, sublabels, categories, annotation_indexes, ppc>>

agg_vars == <<stream, sentence, i, annotations, indexed_annotations, apc>>

norm_vars == <<tsv_rows, rows_done, index_offset, simplified_rows, npc>>

doc_vars == <<tokens, annotator, tokens_done, doc_annotations, doc_indexed, dpc>>

vars == <<parse_vars, agg_vars, norm_vars, doc_vars>>

----------------------------------------------------------------------------
(* Python string primitives                                                *)

DigitChars == <<"0", "1", "2", "3", "4", "5", "6", "7", "8", "9">>

IsDigit(c) == \E d \in 1..10 : DigitChars[d] = c

DigitVal(c) == (CHOOSE d \in 1..10 : DigitChars[d] = c) - 1

\* `c in s`
HasChar(s, c) == \E k \in 1..Len(s) : s[k] = c

\* `sub in s`
Contains(s, sub) ==
    \E k \in 0..(Len(s) - Len(sub)) : SubSeq(s, k + 1, k + Len(sub)) = sub

\* s.index(c) + 1 (the first occurrence, 1-based); 0 where Python raises
Index(s, c) ==
    IF HasChar(s, c)
    THEN CHOOSE k \in 1..Len(s) : s[k] = c /\ \A j \in 1..(k - 1) : s[j] # c
    ELSE 0

\* s.split(sep), for a one-character separator
RECURSIVE Split(_, _)
Split(s, sep) ==
    LET k == Index(s, sep)
    IN  IF k = 0 THEN <<s>>
        ELSE <<SubSeq(s, 1, k - 1)>> \o Split(SubSeq(s, k + 1, Len(s)), sep)

\* int(s) accepts an optional sign followed by decimal digits
IsIntText(s) ==
    LET body == IF Len(s) > 0 /\ s[1] = "-" THEN Tail(s) ELSE s
    IN  Len(body) > 0 /\ \A k \in 1..Len(body) : IsDigit(body[k])

RECURSIVE DigitsValue(_, _)
DigitsValue(s, acc) ==
    IF s = <<>> THEN acc ELSE DigitsValue(Tail(s), acc * 10 + DigitVal(Head(s)))

\* int(s), for s with IsIntText(s)
PyInt(s) ==
    IF s[1] = "-" THEN 0 - DigitsValue(Tail(s), 0) ELSE DigitsValue(s, 0)

\* f"{n}" for an int n
RECURSIVE NatStr(_)
NatStr(n) ==
    IF n < 10 THEN <<DigitChars[n + 1]>>
    ELSE NatStr(n \div 10) \o <<DigitChars[(n % 10) + 1]>>

PyStr(n) == IF n < 0 THEN <<"-">> \o NatStr(0 - n) ELSE NatStr(n)

\* All strings over alphabet of length at most n
RECURSIVE StringsUpTo(_, _)
StringsUpTo(alphabet, n) ==
    IF n = 0 THEN {<<>>}
    ELSE LET shorter == StringsUpTo(alphabet, n - 1)
         IN  shorter \cup {Append(s, c) : s \in shorter, c \in alphabet}

----------------------------------------------------------------------------
(* process_compound_label                                                  *)

MaxLabelLen == 6

LabelAlphabet == {"A", "[", "]", "|", "1", "2"}

\* Line 34 with the slice taken one character too far
SublabelCategoryOffByOne(sublabel) ==
    LET bracket_index == Index(sublabel, "[")
        digits == SubSeq(sublabel, bracket_index + 1, Len(sublabel) - 1)
    IN  IF bracket_index = 0
        THEN [raised |-> FALSE, category |-> sublabel, index |-> -1]
        ELSE IF IsIntText(digits)
        THEN [raised |-> FALSE,
              category |-> SubSeq(sublabel, 1, bracket_index),
              index |-> PyInt(digits)]
        ELSE [raised |-> TRUE, category |-> <<>>, index |-> 0]

\* The body of the loop over sublabels: the pair appended to categories and
\* annotation_indexes, or the ValueError int() raises
ProcessSublabel(sublabel) ==
    LET bracket_index == Index(sublabel, "[")
        digits == SubSeq(sublabel, bracket_index + 1, Len(sublabel) - 1)
    IN  IF bracket_index = 0
        THEN [raised |-> FALSE, category |-> sublabel, index |-> -1]
        ELSE IF IsIntText(digits)
        THEN [raised |-> FALSE,
              category |-> SubSeq(sublabel, 1, bracket_index - 1),
              index |-> PyInt(digits)]
        ELSE [raised |-> TRUE, category |-> <<>>, index |-> 0]

ParseStart(l) ==
    /\ label = l
    /\ sublabels = <<>>
    /\ categories = <<>>
    /\ annotation_indexes = <<>>
    /\ ppc = "call"

\* The parser is not running
ParseIdle ==
    /\ label = <<>>
    /\ sublabels = <<>>
    /\ categories = <<>>
    /\ annotation_indexes = <<>>
    /\ ppc = "idle"

\* Lines 11-13
ParseSplit ==
    /\ ppc = "call"
    /\ sublabels' = Split(label, "|")
    /\ categories' = <<>>
    /\ annotation_indexes' = <<>>
    /\ ppc' = "loop"
    /\ UNCHANGED <<label, agg_vars, norm_vars, doc_vars>>

\* Lines 14-35, one iteration
ParseSublabel ==
    /\ ppc = "loop"
    /\ sublabels # <<>>
    /\ LET got == ProcessSublabel(Head(sublabels))
       IN  \/ /\ ~got.raised
              /\ categories' = Append(categories, got.category)
              /\ annotation_indexes' = Append(annotation_indexes, got.index)
              /\ sublabels' = Tail(sublabels)
              /\ ppc' = "loop"
           \/ /\ got.raised
              /\ ppc' = "raised"
              /\ UNCHANGED <<categories, annotation_indexes, sublabels>>
    /\ UNCHANGED <<label, agg_vars, norm_vars, doc_vars>>

\* Line 36
ParseReturn ==
    /\ ppc = "loop"
    /\ sublabels = <<>>
    /\ ppc' = "returned"
    /\ UNCHANGED <<label, sublabels, categories, annotation_indexes>>
    /\ UNCHANGED <<agg_vars, norm_vars, doc_vars>>

ParseNext == ParseSplit \/ ParseSublabel \/ ParseReturn

----------------------------------------------------------------------------
(* tsv_processing.get_annotations                                          *)

MaxTokens == 3

MaxRefs == 3

\* The references tokens carry: (category, id), id -1 the sentinel
TsvRefs == {<<<<"A">>, -1>>, <<<<"A">>, 1>>, <<<<"B">>, 1>>, <<<<"B">>, 2>>}

\* The column of a simplified row that holds the label (0-based, as passed)
annotation_column == 2

\* A simplified row split into cells: sentence number, token text, label
Row(l) == <<<<"1">>, <<"w">>, l>>

\* "category:id"
RefText(ref) == ref[1] \o <<":">> \o PyStr(ref[2])

RECURSIVE JoinRefs(_)
JoinRefs(refs) ==
    IF Len(refs) = 1 THEN RefText(refs[1])
    ELSE RefText(refs[1]) \o <<"|">> \o JoinRefs(Tail(refs))

\* The label of a token carrying refs, in the simplified format
RefsLabel(refs) == IF refs = <<>> THEN <<"_">> ELSE JoinRefs(refs)

\* A label with the placeholder marker: `*` stands for the first category
StarLabel(refs) ==
    IF refs = <<>> THEN <<"*">>
    ELSE JoinRefs(<<<<<<"*">>, refs[1][2]>>>> \o Tail(refs))

\* Token streams of at most t tokens carrying at most n references in all
RECURSIVE Streams(_, _, _)
Streams(refs, t, n) ==
    IF t = 0 THEN {<<>>}
    ELSE {<<>>} \cup
         UNION {{<<rl>> \o rest : rest \in Streams(refs, t - 1, n - Len(rl))} :
                    rl \in StringsUpTo(refs, n)}

\* `annotation in indexed_annotations.keys()`
HasKey(indexed, key) == \E k \in 1..Len(indexed) : indexed[k].key = key

\* indexed_annotations[key][2] = idx
SetStop(indexed, key, idx) ==
    [k \in 1..Len(indexed) |->
        IF indexed[k].key = key
        THEN [indexed[k] EXCEPT !.value = <<indexed[k].value[1], indexed[k].value[2], idx>>]
        ELSE indexed[k]]

\* list(indexed_annotations.values()): a dict keeps insertion order
Values(indexed) == [k \in 1..Len(indexed) |-> indexed[k].value]

\* Lines 139-148: one annotation of a token's label. Every sub-label of the
\* labels scanned here is "category:int", so that neither the unpacking of
\* annotation.split(":") nor int(index) raises
IndexOne(indexed, annotation, idx) ==
    LET parts == Split(annotation, ":")
        category == parts[1]
        index == PyInt(parts[2])
    IN  IF ~HasKey(indexed, annotation)
        THEN Append(indexed, [key |-> annotation, value |-> <<category, idx, idx>>])
        ELSE SetStop(indexed, annotation, idx)

\* Lines 137-148: the loop over label.split("|")
RECURSIVE IndexAll(_, _, _)
IndexAll(indexed, token_annotations, idx) ==
    IF token_annotations = <<>> THEN indexed
    ELSE IndexAll(IndexOne(indexed, Head(token_annotations), idx),
                  Tail(token_annotations), idx)

\* Lines 133-135: the span of a label that contains "-1"
SingleToken(l, idx) == <<SubSeq(l, 1, Index(l, ":") - 1), idx, idx>>

\* label = token[annotation_column] of the token at 0-based index idx
LabelAt(sent, idx) == sent[idx + 1][annotation_column + 1]

AggStart(sent) ==
    /\ sentence = sent
    /\ i = 0
    /\ annotations = <<>>
    /\ indexed_annotations = <<>>

\* Lines 127-130 taken as `continue`
AggBreakAsContinue ==
    /\ apc = "loop"
    /\ i < Len(sentence)
    /\ HasChar(LabelAt(sentence, i), "*")
    /\ i' = i + 1
    /\ UNCHANGED <<apc, annotations, indexed_annotations, stream, sentence>>
    /\ UNCHANGED <<parse_vars, norm_vars, doc_vars>>

\* Lines 127-130: the placeholder marker ends the scan
AggBreak ==
    /\ apc = "loop"
    /\ i < Len(sentence)
    /\ HasChar(LabelAt(sentence, i), "*")
    /\ apc' = "after_loop"
    /\ UNCHANGED <<i, annotations, indexed_annotations, stream, sentence>>
    /\ UNCHANGED <<parse_vars, norm_vars, doc_vars>>

\* Lines 131-132
AggNoAnnotation ==
    /\ apc = "loop"
    /\ i < Len(sentence)
    /\ ~HasChar(LabelAt(sentence, i), "*")
    /\ LabelAt(sentence, i) = <<"_">>
    /\ i' = i + 1
    /\ UNCHANGED <<apc, annotations, indexed_annotations, stream, sentence>>
    /\ UNCHANGED <<parse_vars, norm_vars, doc_vars>>

\* Lines 133-135
AggSingleToken ==
    /\ apc = "loop"
    /\ i < Len(sentence)
    /\ ~HasChar(LabelAt(sentence, i), "*")
    /\ LabelAt(sentence, i) # <<"_">>
    /\ Contains(LabelAt(sentence, i), <<"-", "1">>)
    /\ annotations' = Append(annotations, SingleToken(LabelAt(sentence, i), i))
    /\ i' = i + 1
    /\ UNCHANGED <<apc, indexed_annotations, stream, sentence>>
    /\ UNCHANGED <<parse_vars, norm_vars, doc_vars>>

\* Lines 136-148
AggIndexed ==
    /\ apc = "loop"
    /\ i < Len(sentence)
    /\ ~HasChar(LabelAt(sentence, i), "*")
    /\ LabelAt(sentence, i) # <<"_">>
    /\ ~Contains(LabelAt(sentence, i), <<"-", "1">>)
    /\ indexed_annotations' =
           IndexAll(indexed_annotations, Split(LabelAt(sentence, i), "|"), i)
    /\ i' = i + 1
    /\ UNCHANGED <<apc, annotations, stream, sentence>>
    /\ UNCHANGED <<parse_vars, norm_vars, doc_vars>>

\* The loop over enumerate(sentence) is exhausted
AggLoopEnd ==
    /\ apc = "loop"
    /\ i = Len(sentence)
    /\ apc' = "after_loop"
    /\ UNCHANGED <<i, annotations, indexed_annotations, stream, sentence>>
    /\ UNCHANGED <<parse_vars, norm_vars, doc_vars>>

\* Lines 149-151
AggReturn ==
    /\ apc = "after_loop"
    /\ annotations' = annotations \o Values(indexed_annotations)
    /\ apc' = "returned"
    /\ UNCHANGED <<i, indexed_annotations, stream, sentence>>
    /\ UNCHANGED <<parse_vars, norm_vars, doc_vars>>

\* get_annotations(sentence, annotation_column) as a function of the sentence
RECURSIVE Scan(_, _, _, _)
Scan(sent, idx, anns, indexed) ==
    IF idx >= Len(sent) \/ HasChar(LabelAt(sent, idx), "*")
    THEN anns \o Values(indexed)
    ELSE IF LabelAt(sent, idx) = <<"_">>
    THEN Scan(sent, idx + 1, anns, indexed)
    ELSE IF Contains(LabelAt(sent, idx), <<"-", "1">>)
    THEN Scan(sent, idx + 1, Append(anns, SingleToken(LabelAt(sent, idx), idx)), indexed)
    ELSE Scan(sent, idx + 1, anns,
              IndexAll(indexed, Split(LabelAt(sent, idx), "|"), idx))

get_annotations(sent) == Scan(sent, 0, <<>>, <<>>)

AggNext ==
    \/ AggBreak
    \/ AggNoAnnotation
    \/ AggSingleToken
    \/ AggIndexed
    \/ AggLoopEnd
    \/ AggReturn

----------------------------------------------------------------------------
(* process_sentence                                                        *)

\* index_offset before the first annotated row
OffsetUnset == -1000000

TAB == "\t"

\* The references of raw labels: (category, document-global id), -1 for a
\* sub-label without a bracketed id
RawRefs == {<<<<"A">>, -1>>, <<<<"A">>, 9>>, <<<<"A">>, 10>>,
            <<<<"B">>, 10>>, <<<<"B">>, 11>>}

\* "Category" or "Category[N]"
RawText(ref) ==
    IF ref[2] = -1 THEN ref[1]
    ELSE ref[1] \o <<"[">> \o PyStr(ref[2]) \o <<"]">>

RECURSIVE JoinRaw(_)
JoinRaw(refs) ==
    IF Len(refs) = 1 THEN RawText(refs[1])
    ELSE RawText(refs[1]) \o <<"|">> \o JoinRaw(Tail(refs))

RawLabel(refs) == IF refs = <<>> THEN <<"_">> ELSE JoinRaw(refs)

\* row.split("\t") of the k-th token row of an export: the sentence-token
\* number, the character offsets, the token, a layer column, the label
RawCells(k, l) == <<<<"1", "-">> \o PyStr(k), <<"0">>, <<"w">>, <<"_">>, l>>

\* process_compound_label(label), for a label whose bracketed ids are
\* integers
RECURSIVE CompoundFrom(_)
CompoundFrom(subs) ==
    IF subs = <<>> THEN [categories |-> <<>>, annotation_indexes |-> <<>>]
    ELSE LET got == ProcessSublabel(Head(subs))
             rest == CompoundFrom(Tail(subs))
         IN  [categories |-> <<got.category>> \o rest.categories,
              annotation_indexes |-> <<got.index>> \o rest.annotation_indexes]

process_compound_label(l) == CompoundFrom(Split(l, "|"))

\* Lines 73-78 without the test for the sentinel
RECURSIVE NewLabelShiftingAll(_, _, _)
NewLabelShiftingAll(cats, indexes, offset) ==
    IF cats = <<>> THEN <<>>
    ELSE Head(cats) \o <<":">> \o PyStr(Head(indexes) - offset) \o <<"|">>
         \o NewLabelShiftingAll(Tail(cats), Tail(indexes), offset)

\* Lines 72-78: new_label, with its trailing pipe
RECURSIVE NewLabel(_, _, _)
NewLabel(cats, indexes, offset) ==
    IF cats = <<>> THEN <<>>
    ELSE (IF Head(indexes) = -1
          THEN Head(cats) \o <<":">> \o PyStr(Head(indexes)) \o <<"|">>
          ELSE Head(cats) \o <<":">> \o PyStr(Head(indexes) - offset) \o <<"|">>)
         \o NewLabel(Tail(cats), Tail(indexes), offset)

\* Lines 70-71 with the offset taken from every annotated row
OffsetFromEveryRow(offset, indexes) == indexes[1] - 1

\* Lines 70-71: the offset after an annotated row
OffsetAfter(offset, indexes) ==
    IF offset = OffsetUnset THEN indexes[1] - 1 ELSE offset

\* cells[0][:cells[0].index("-")]
SentNum(cells) == SubSeq(cells[1], 1, Index(cells[1], "-") - 1)

\* f"{sent_num}\t{token}\t{text}"
SimplifiedRow(cells, text) ==
    SentNum(cells) \o <<TAB>> \o cells[3] \o <<TAB>> \o text

NormStart(rows) ==
    /\ tsv_rows = rows
    /\ rows_done = 0
    /\ index_offset = OffsetUnset
    /\ simplified_rows = <<>>

\* Lines 61-67: a row without annotation
NormNoAnnotation ==
    /\ npc = "loop"
    /\ rows_done < Len(tsv_rows)
    /\ LET cells == tsv_rows[rows_done + 1]
       IN  /\ cells[5] = <<"_">>
           /\ simplified_rows' = Append(simplified_rows, SimplifiedRow(cells, <<"_">>))
    /\ rows_done' = rows_done + 1
    /\ UNCHANGED <<tsv_rows, index_offset, npc>>
    /\ UNCHANGED <<parse_vars, agg_vars, doc_vars>>

\* Lines 61-65, 68-80: an annotated row
NormAnnotated ==
    /\ npc = "loop"
    /\ rows_done < Len(tsv_rows)
    /\ LET cells == tsv_rows[rows_done + 1]
           parsed == process_compound_label(cells[5])
           offset == OffsetAfter(index_offset, parsed.annotation_indexes)
           new_label == NewLabel(parsed.categories, parsed.annotation_indexes, offset)
       IN  /\ cells[5] # <<"_">>
           /\ index_offset' = offset
           /\ simplified_rows' =
                  Append(simplified_rows,
                         SimplifiedRow(cells, SubSeq(new_label, 1, Len(new_label) - 1)))
    /\ rows_done' = rows_done + 1
    /\ UNCHANGED <<tsv_rows, npc>>
    /\ UNCHANGED <<parse_vars, agg_vars, doc_vars>>

\* Line 81
NormReturn ==
    /\ npc = "loop"
    /\ rows_done = Len(tsv_rows)
    /\ npc' = "returned"
    /\ UNCHANGED <<tsv_rows, rows_done, index_offset, simplified_rows>>
    /\ UNCHANGED <<parse_vars, agg_vars, doc_vars>>

\* Line 114: the rows are split into cells, and the sentence is handed to
\* get_annotations with annotation_column = 2
NormAggregate ==
    /\ npc = "returned"
    /\ apc = "idle"
    /\ sentence' = [k \in 1..Len(simplified_rows) |-> Split(simplified_rows[k], TAB)]
    /\ i' = 0
    /\ annotations' = <<>>
    /\ indexed_annotations' = <<>>
    /\ apc' = "loop"
    /\ UNCHANGED <<stream, parse_vars, norm_vars, doc_vars>>

NormIdle ==
    /\ NormStart(<<>>)
    /\ npc = "idle"

----------------------------------------------------------------------------
(* Sentence.get_annotations                                                *)

MaxDocTokens == 2

MaxDocRefs == 3

Annotators == {"alice", "bob"}

\* TokenAnnotation(category, id, annotator)
TokenAnnotation(c, n, a) == [category |-> c, id |-> n, annotator |-> a]

TokenAnnotations ==
    {TokenAnnotation("A", -1, "alice"), TokenAnnotation("A", 1, "alice"),
     TokenAnnotation("B", 1, "alice"), TokenAnnotation("B", 1, "bob"),
     TokenAnnotation("B", -1, "bob")}

\* Annotation(category, start, end); annotator keeps its default
Annotation(c, s, e) == [category |-> c, start |-> s, end |-> e, annotator |-> ""]

TokenIdOrders(n) ==
    {f \in [1..n -> 0..(n - 1)] : \A j, k \in 1..n : f[j] = f[k] => j = k}

\* indexed_annotations[id].end = token_id
SetEnd(indexed, key, token_id) ==
    [k \in 1..Len(indexed) |->
        IF indexed[k].key = key
        THEN [indexed[k] EXCEPT !.value.end = token_id]
        ELSE indexed[k]]

\* Lines 99-112 with the annotator tested for single-token annotations only
ReadAnnotationOfAnyone(acc, token_annotation, token_id, who) ==
    IF token_annotation.id = -1
    THEN IF token_annotation.annotator = who
         THEN [acc EXCEPT !.annotations =
                  Append(@, Annotation(token_annotation.category, token_id, token_id))]
         ELSE acc
    ELSE IF ~HasKey(acc.indexed, token_annotation.id)
    THEN [acc EXCEPT !.indexed =
             Append(@, [key |-> token_annotation.id,
                        value |-> Annotation(token_annotation.category, token_id, token_id)])]
    ELSE [acc EXCEPT !.indexed = SetEnd(@, token_annotation.id, token_id)]

\* Lines 99-112: one TokenAnnotation of a token
ReadAnnotation(acc, token_annotation, token_id, who) ==
    IF token_annotation.annotator # who THEN acc
    ELSE IF token_annotation.id = -1
    THEN [acc EXCEPT !.annotations =
             Append(@, Annotation(token_annotation.category, token_id, token_id))]
    ELSE IF ~HasKey(acc.indexed, token_annotation.id)
    THEN [acc EXCEPT !.indexed =
             Append(@, [key |-> token_annotation.id,
                        value |-> Annotation(token_annotation.category, token_id, token_id)])]
    ELSE [acc EXCEPT !.indexed = SetEnd(@, token_annotation.id, token_id)]

\* Lines 98-112: the loop over token.annotations
RECURSIVE ReadToken(_, _, _, _)
ReadToken(acc, token_annotations, token_id, who) ==
    IF token_annotations = <<>> THEN acc
    ELSE ReadToken(ReadAnnotation(acc, Head(token_annotations), token_id, who),
                   Tail(token_annotations), token_id, who)

DocStart(toks, who) ==
    /\ tokens = toks
    /\ annotator = who
    /\ tokens_done = 0
    /\ doc_annotations = <<>>
    /\ doc_indexed = <<>>

\* Lines 97-112, one token
DocToken ==
    /\ dpc = "loop"
    /\ tokens_done < Len(tokens)
    /\ LET token == tokens[tokens_done + 1]
           acc == ReadToken([annotations |-> doc_annotations, indexed |-> doc_indexed],
                            token.annotations, token.id, annotator)
       IN  /\ doc_annotations' = acc.annotations
           /\ doc_indexed' = acc.indexed
    /\ tokens_done' = tokens_done + 1
    /\ UNCHANGED <<tokens, annotator, dpc>>
    /\ UNCHANGED <<parse_vars, agg_vars, norm_vars>>

\* Lines 113-115
DocReturn ==
    /\ dpc = "loop"
    /\ tokens_done = Len(tokens)
    /\ doc_annotations' = doc_annotations \o Values(doc_indexed)
    /\ dpc' = "returned"
    /\ UNCHANGED <<tokens, annotator, tokens_done, doc_indexed>>
    /\ UNCHANGED <<parse_vars, agg_vars, norm_vars>>

\* Sentence(tokens = toks).get_annotations(who) as a function
RECURSIVE DocScan(_, _, _)
DocScan(toks, who, acc) ==
    IF toks = <<>> THEN acc.annotations \o Values(acc.indexed)
    ELSE DocScan(Tail(toks), who,
                 ReadToken(acc, Head(toks).annotations, Head(toks).id, who))

Sentence_get_annotations(toks, who) ==
    DocScan(toks, who, [annotations |-> <<>>, indexed |-> <<>>])

DocIdle ==
    /\ DocStart(<<>>, "")
    /\ dpc = "idle"

DocNext == DocToken \/ DocReturn

----------------------------------------------------------------------------
(* Specifications: one per function under study                            *)

AggIdle ==
    /\ stream = <<>>
    /\ AggStart(<<>>)
    /\ apc = "idle"

\* process_compound_label on every label over the alphabet
ParseInit ==
    /\ \E l \in StringsUpTo(LabelAlphabet, MaxLabelLen) : ParseStart(l)
    /\ AggIdle
    /\ NormIdle
    /\ DocIdle

SpecParse == ParseInit /\ [][ParseNext]_vars

\* tsv_processing.get_annotations on every stream of simplified rows, with
\* at most one token's label carrying the placeholder marker
TsvInit ==
    /\ stream \in Streams(TsvRefs, MaxTokens, MaxRefs)
    /\ \E star \in 0..Len(stream) :
          AggStart([k \in 1..Len(stream) |->
                       Row(IF k = star THEN StarLabel(stream[k])
                                       ELSE RefsLabel(stream[k]))])
    /\ apc = "loop"
    /\ ParseIdle
    /\ NormIdle
    /\ DocIdle

SpecTsv == TsvInit /\ [][AggNext]_vars

\* process_sentence on every raw sentence, then get_annotations on the rows
\* it wrote; stream holds the references the raw labels are written from
NormInit ==
    /\ stream \in Streams(RawRefs, MaxTokens, MaxRefs)
    /\ NormStart([k \in 1..Len(stream) |-> RawCells(k, RawLabel(stream[k]))])
    /\ npc = "loop"
    /\ AggStart(<<>>)
    /\ apc = "idle"
    /\ ParseIdle
    /\ DocIdle

NormNext ==
    \/ NormNoAnnotation
    \/ NormAnnotated
    \/ NormReturn
    \/ NormAggregate
    \/ AggNoAnnotation
    \/ AggSingleToken
    \/ AggIndexed
    \/ AggLoopEnd
    \/ AggReturn

SpecNorm == NormInit /\ [][NormNext]_vars

\* Sentence.get_annotations on every sentence, the Token.id values being the
\* positions 0..N-1 in any order
DocInit ==
    /\ \E refs \in Streams(TokenAnnotations, MaxDocTokens, MaxDocRefs) :
       \E ids \in TokenIdOrders(Len(refs)) :
       \E who \in Annotators :
          DocStart([k \in 1..Len(refs) |-> [id |-> ids[k], annotations |-> refs[k]]], who)
    /\ dpc = "loop"
    /\ ParseIdle
    /\ AggIdle
    /\ NormIdle

SpecDoc == DocInit /\ [][DocNext]_vars

----------------------------------------------------------------------------
(* The parser's contract, stated on the label text                         *)

SeparatorPositions(s) == {k \in 1..Len(s) : s[k] = "|"}

\* Position of the k-th separator; 0 and Len(s) + 1 bound the label
NthSeparator(s, k) ==
    IF k = 0 THEN 0
    ELSE IF k > Cardinality(SeparatorPositions(s)) THEN Len(s) + 1
    ELSE CHOOSE p \in SeparatorPositions(s) :
            Cardinality({q \in SeparatorPositions(s) : q < p}) = k - 1

\* The k-th `|`-separated sub-label of s
Piece(s, k) == SubSeq(s, NthSeparator(s, k - 1) + 1, NthSeparator(s, k) - 1)

FirstBracket(s) == CHOOSE k \in 1..Len(s) : s[k] = "[" /\ \A j \in 1..(k - 1) : s[j] # "["

\* The text between the first `[` and the last character
Bracketed(s) == SubSeq(s, FirstBracket(s) + 1, Len(s) - 1)

\* s is Category[N], N a non-negative decimal integer
IsCategoryN(s) ==
    /\ HasChar(s, "[")
    /\ s[Len(s)] = "]"
    /\ Bracketed(s) # <<>>
    /\ \A k \in 1..Len(Bracketed(s)) : IsDigit(Bracketed(s)[k])

RECURSIVE PositionalValue(_, _)
PositionalValue(d, k) ==
    IF k > Len(d) THEN 0
    ELSE DigitVal(d[k]) * 10 ^ (Len(d) - k) + PositionalValue(d, k + 1)

\* C8: process_compound_label returns two sequences of equal length, one
\* entry per `|`-separated sub-label in the label's order; a sub-label without
\* `[` yields (the sub-label, -1) and a sub-label Category[N] yields
\* (Category, N), Category the text before the first `[` and N the integer
\* between that `[` and the trailing `]`.
C8_ParserContract ==
    ppc = "returned" =>
        /\ Len(categories) = Cardinality(SeparatorPositions(label)) + 1
        /\ Len(annotation_indexes) = Len(categories)
        /\ \A k \in 1..Len(categories) :
              LET sub == Piece(label, k)
              IN  /\ ~HasChar(sub, "[") =>
                        /\ categories[k] = sub
                        /\ annotation_indexes[k] = -1
                  /\ IsCategoryN(sub) =>
                        /\ categories[k] = SubSeq(sub, 1, FirstBracket(sub) - 1)
                        /\ annotation_indexes[k] = PositionalValue(Bracketed(sub), 1)

\* A returned parse of a label with a bare and a bracketed sub-label
C8_Witness ==
    /\ ppc = "returned"
    /\ \E j, k \in 1..Len(categories) :
          /\ j < k
          /\ IsCategoryN(Piece(label, j))
          /\ categories[j] # <<>>
          /\ ~HasChar(Piece(label, k), "[")
          /\ Piece(label, k) # <<>>
          /\ annotation_indexes[j] > 0

----------------------------------------------------------------------------
(* The span aggregator's contract, stated on the references of the stream  *)

\* 1-based position of the first token whose label holds the placeholder
\* marker; Len(sentence) + 1 when there is none
StarAt ==
    IF \E k \in 1..Len(sentence) : HasChar(sentence[k][annotation_column + 1], "*")
    THEN CHOOSE k \in 1..Len(sentence) :
            /\ HasChar(sentence[k][annotation_column + 1], "*")
            /\ \A j \in 1..(k - 1) : ~HasChar(sentence[j][annotation_column + 1], "*")
    ELSE Len(sentence) + 1

\* The references of the tokens before the marker, in scan order, each with
\* the 0-based index of its token
RECURSIVE Flatten(_, _, _)
Flatten(st, k, last) ==
    IF k > last THEN <<>>
    ELSE [j \in 1..Len(st[k]) |->
             [category |-> st[k][j][1], id |-> st[k][j][2], token |-> k - 1]]
         \o Flatten(st, k + 1, last)

References == Flatten(stream, 1, StarAt - 1)

RECURSIVE SentinelSpansFrom(_, _)
SentinelSpansFrom(flat, n) ==
    IF n > Len(flat) THEN <<>>
    ELSE (IF flat[n].id = -1
          THEN <<<<flat[n].category, flat[n].token, flat[n].token>>>>
          ELSE <<>>)
         \o SentinelSpansFrom(flat, n + 1)

\* One span per sentinel reference, in scan order
SentinelSpans == SentinelSpansFrom(References, 1)

GroupedIds == {References[n].id : n \in 1..Len(References)} \ {-1}

\* The index of the first token of flat that carries id
FirstTokenIn(flat, id) ==
    LET carrying == {flat[n].token : n \in {m \in 1..Len(flat) : flat[m].id = id}}
    IN  CHOOSE t \in carrying : \A u \in carrying : u >= t

\* The index of the last token of flat that carries id
LastTokenIn(flat, id) ==
    LET carrying == {flat[n].token : n \in {m \in 1..Len(flat) : flat[m].id = id}}
    IN  CHOOSE t \in carrying : \A u \in carrying : u =< t

FirstToken(id) == FirstTokenIn(References, id)

LastToken(id) == LastTokenIn(References, id)

RECURSIVE GroupedSpansFrom(_, _)
GroupedSpansFrom(flat, n) ==
    IF n > Len(flat) THEN <<>>
    ELSE (IF flat[n].id # -1 /\ \A m \in 1..(n - 1) : flat[m].id # flat[n].id
          THEN <<<<flat[n].category, FirstTokenIn(flat, flat[n].id),
                   LastTokenIn(flat, flat[n].id)>>>>
          ELSE <<>>)
         \o GroupedSpansFrom(flat, n + 1)

\* One span per non-sentinel id, in the order the ids are first seen
GroupedSpans == GroupedSpansFrom(References, 1)

\* C1: the list returned by tsv_processing.get_annotations is exactly the
\* spans of the sentinel references in token-scan order followed by the spans
\* of the non-sentinel references in the order their ids were first seen.
C1_TwoPhaseOrder ==
    apc = "returned" => annotations = SentinelSpans \o GroupedSpans

\* No token carries a sentinel reference beside another reference
NoSentinelBesideOthers ==
    \A k \in 1..Len(stream) :
        (\E j \in 1..Len(stream[k]) : stream[k][j][2] = -1) => Len(stream[k]) = 1

\* C2: the accumulator is keyed by annotation id: every non-sentinel id of the
\* scanned stream has exactly one span, from the first to the last token that
\* carries the id, also when references with the same id name different
\* categories. Stated for the streams in which a sentinel reference is alone
\* on its token.
C2_KeyedById ==
    (apc = "returned" /\ NoSentinelBesideOthers) =>
        /\ Len(indexed_annotations) = Cardinality(GroupedIds)
        /\ \A id \in GroupedIds :
              \E k \in 1..Len(indexed_annotations) :
                  /\ indexed_annotations[k].value[2] = FirstToken(id)
                  /\ indexed_annotations[k].value[3] = LastToken(id)

\* C3: every sub-label with id -1 emits its own span (its category, start =
\* end = token index), and every sub-label with another id on the same token
\* still opens or extends an accumulator entry.
C3_EveryReferenceCounts ==
    apc = "returned" =>
        /\ SubSeq(annotations, 1, Len(annotations) - Len(indexed_annotations))
               = SentinelSpans
        /\ \A n \in 1..Len(References) :
              References[n].id # -1 =>
                  \E k \in 1..Len(indexed_annotations) :
                      /\ indexed_annotations[k].value[2] =< References[n].token
                      /\ indexed_annotations[k].value[3] >= References[n].token

\* C4: when a token's label at index k contains `*`, no token with index >= k
\* is scanned and the list returned is the result of aggregating tokens
\* 0..k-1; no span has start or end >= k.
C4_Truncation ==
    (apc = "returned" /\ StarAt =< Len(sentence)) =>
        /\ i = StarAt - 1
        /\ annotations = get_annotations(SubSeq(sentence, 1, StarAt - 1))
        /\ \A n \in 1..Len(annotations) :
              annotations[n][2] < StarAt - 1 /\ annotations[n][3] < StarAt - 1

\* A sentence cut at the marker while a span opened before it has tokens
\* after it
C4_Witness ==
    /\ apc = "returned"
    /\ StarAt > 1
    /\ StarAt < Len(sentence)
    /\ indexed_annotations # <<>>
    /\ \E j \in 1..Len(stream[1]), m \in 1..Len(stream[Len(stream)]) :
          /\ stream[1][j][2] # -1
          /\ stream[1][j] = stream[Len(stream)][m]

----------------------------------------------------------------------------
(* The offset normalizer's contract, stated on the raw references          *)

RawReferences == Flatten(stream, 1, Len(stream))

BracketedIds == {RawReferences[n].id : n \in 1..Len(RawReferences)} \ {-1}

\* The first bracketed id in token order
FirstBracketedId ==
    LET n == CHOOSE n \in 1..Len(RawReferences) :
                /\ RawReferences[n].id # -1
                /\ \A m \in 1..(n - 1) : RawReferences[m].id = -1
    IN  RawReferences[n].id

\* Every document-global id of the sentence is >= the first one encountered
IdsAtLeastFirst == \A id \in BracketedIds : id >= FirstBracketedId

\* The sub-labels written for the k-th row
WrittenLabel(k) == Split(simplified_rows[k], TAB)[3]

WrittenSubs(k) == Split(WrittenLabel(k), "|")

\* C6: in a sentence whose ids are all >= the first id encountered, every
\* occurrence of the smallest document-global id is written as local id 1,
\* whatever the first annotated label looks like.
C6_SmallestIdIsOne ==
    (npc = "returned" /\ BracketedIds # {} /\ IdsAtLeastFirst) =>
        \A k \in 1..Len(stream) : \A j \in 1..Len(stream[k]) :
            stream[k][j][2] = FirstBracketedId =>
                WrittenSubs(k)[j] = stream[k][j][1] \o <<":", "1">>

WellFormed ==
    /\ \A n \in 1..Len(RawReferences) : RawReferences[n].id # -1
    /\ IdsAtLeastFirst

\* The distinct bracketed annotations: (category, document-global id)
RawAnnotations ==
    {<<RawReferences[n].category, RawReferences[n].id>> : n \in 1..Len(RawReferences)}

IsAt(n, ann) ==
    /\ RawReferences[n].category = ann[1]
    /\ RawReferences[n].id = ann[2]

FirstOccurrence(ann) ==
    CHOOSE n \in 1..Len(RawReferences) :
        IsAt(n, ann) /\ \A m \in 1..(n - 1) : ~IsAt(m, ann)

LastOccurrence(ann) ==
    CHOOSE n \in 1..Len(RawReferences) :
        IsAt(n, ann) /\ \A m \in (n + 1)..Len(RawReferences) : ~IsAt(m, ann)

\* The rank of an annotation among the annotations by first occurrence
Rank(ann) ==
    Cardinality({other \in RawAnnotations :
                     FirstOccurrence(other) =< FirstOccurrence(ann)})

\* C7: for a well-formed raw sentence, process_sentence followed by
\* get_annotations yields exactly one span per distinct bracketed annotation
\* (category, index of its first token, index of its last token), the spans
\* in the order the annotations first occur.
C7_EndToEnd ==
    (apc = "returned" /\ WellFormed) =>
        /\ Len(annotations) = Cardinality(RawAnnotations)
        /\ \A ann \in RawAnnotations :
              annotations[Rank(ann)] =
                  <<ann[1], RawReferences[FirstOccurrence(ann)].token,
                    RawReferences[LastOccurrence(ann)].token>>

\* Two annotations with different ids, the first over several tokens
C7_Witness ==
    /\ apc = "returned"
    /\ WellFormed
    /\ Len(annotations) >= 2
    /\ annotations[1][3] > annotations[1][2]
    /\ annotations[2][2] > annotations[1][2]

----------------------------------------------------------------------------
(* Sentence.get_annotations                                                *)

\* The sentence without the TokenAnnotations of annotators other than who
OnlyOf(toks, who) ==
    [k \in 1..Len(toks) |->
        [toks[k] EXCEPT !.annotations = SelectSeq(@, LAMBDA ta : ta.annotator = who)]]

\* The annotator's references in scan order, each with the position of its
\* token
RECURSIVE DocFlatten(_, _, _)
DocFlatten(toks, k, who) ==
    IF k > Len(toks) THEN <<>>
    ELSE LET mine == SelectSeq(toks[k].annotations, LAMBDA ta : ta.annotator = who)
         IN  [j \in 1..Len(mine) |->
                 [category |-> mine[j].category, id |-> mine[j].id, token |-> k - 1]]
             \o DocFlatten(toks, k + 1, who)

AsAnnotations(spans) ==
    [n \in 1..Len(spans) |-> Annotation(spans[n][1], spans[n][2], spans[n][3])]

\* Token.id is the position of the token
PositionalIds == \A k \in 1..Len(tokens) : tokens[k].id = k - 1

\* The two-phase order and the keying by id (C1, C2) as they hold of
\* Sentence.get_annotations on a sentence whose Token.id values are 0..N-1:
\* the sentinel spans in scan order, then one span per id in first-seen order
DocTwoPhaseOrderById ==
    (dpc = "returned" /\ PositionalIds) =>
        LET flat == DocFlatten(tokens, 1, annotator)
        IN  doc_annotations =
                AsAnnotations(SentinelSpansFrom(flat, 1) \o GroupedSpansFrom(flat, 1))

\* C5: Sentence.get_annotations(a) depends only on the TokenAnnotations whose
\* annotator is a: the sentence and the sentence without the other
\* annotators' TokenAnnotations yield the same list.
C5_OtherAnnotatorsIgnored ==
    dpc = "returned" =>
        doc_annotations = Sentence_get_annotations(OnlyOf(tokens, annotator), annotator)

\* Another annotator's reference shares an id with one of the annotator's on
\* the previous token
C5_Witness ==
    /\ dpc = "returned"
    /\ doc_annotations # <<>>
    /\ \E k \in 1..(Len(tokens) - 1) :
       \E m \in 1..Len(tokens[k].annotations), n \in 1..Len(tokens[k + 1].annotations) :
          /\ tokens[k].annotations[m].annotator = annotator
          /\ tokens[k + 1].annotations[n].annotator # annotator
          /\ tokens[k].annotations[m].id # -1
          /\ tokens[k].annotations[m].id = tokens[k + 1].annotations[n].id

\* C9: every Annotation returned by Sentence.get_annotations has end >= start,
\* and its start and end are positions of tokens of the sentence, also when
\* the Token.id values are not 0..N-1 in list order.
C9_EndNotBeforeStart ==
    dpc = "returned" =>
        \A n \in 1..Len(doc_annotations) :
            /\ doc_annotations[n].end >= doc_annotations[n].start
            /\ doc_annotations[n].start \in 0..(Len(tokens) - 1)
            /\ doc_annotations[n].end \in 0..(Len(tokens) - 1)

====
